---- MODULE Spec2Model ----
(***************************************************************************)
(* examples/natural_language/transformers/retrain_distillbert.py           *)
(*                                                                         *)
(* The script is one function, train(), run by app.run.  The model follows *)
(* one run statement by statement (pc), and lets the script be run again   *)
(* on the file system the previous run left behind.  Calls into the        *)
(* frameworks are recorded in `calls`; a framework call that can fail for  *)
(* reasons outside the script (network, memory) may raise.                 *)
(***************************************************************************)
EXTENDS Integers, Sequences, FiniteSets, TLC

VARIABLES
    run,            \* number of this execution of the script
    pc,             \* the statement of train() about to execute
    FLAGS,          \* absl flag values of this execution
    dirs,           \* directories that exist
    files,          \* files that exist: path, the run that wrote it (0: an earlier
                    \* training), whether the model written was trained, and
                    \* whether writing it replaced a file
    bound,          \* names of train()'s local variables that are bound
    num_labels,     \* local num_labels
    model_path,     \* local model_path
    large_weights,  \* large_model.layers[0].weights
    i,              \* loop variable of the slicing loop
    weight_list,    \* local weight_list
    model_state,    \* weights held by `model`: "unbuilt", "random", "sliced", "trained"
    calls,          \* framework calls made by this execution, in order
    printed,        \* what this execution printed, in order
    raised          \* the uncaught exception that ended this execution, or "none"

vars == <<run, pc, FLAGS, dirs, files, bound, num_labels, model_path,
          large_weights, i, weight_list, model_state, calls, printed, raised>>

(***************************************************************************)
(* Bounds                                                                  *)
(***************************************************************************)
MaxRuns == 2
MaxWeights == 2

Tasks == {"sst-2", "sts-b", "cola", "mnli"}
BatchSizes == {16, 32}

(***************************************************************************)
(* Python values                                                           *)
(***************************************************************************)
None == [type |-> "NoneType"]
PyInt(n) == [type |-> "int", int |-> n]

PyStr(s) == [type |-> "str", str |-> s]
PyObject(name) == [type |-> "object", of |-> name]

\* str.startswith
startswith(v, prefix) ==
    /\ Len(v) >= Len(prefix)
    /\ SubSeq(v, 1, Len(prefix)) = prefix

Min(a, b) == IF a < b THEN a ELSE b
Max(a, b) == IF a < b THEN b ELSE a

(***************************************************************************)
(* Flags (lines 15-27).  The flags the control flow reads are inputs; the  *)
(* others keep their defaults.                                             *)
(***************************************************************************)
FlagNames == <<"batch_size", "learning_rate", "epsilon", "max_length",
               "buffer_size", "use_xla", "use_amp", "epochs", "task",
               "force_train", "evaluate">>

\* lines 16-27
DefaultFlags ==
    [batch_size |-> 32, learning_rate |-> "3e-5", epsilon |-> "1e-8",
     max_length |-> 128, buffer_size |-> 128, use_xla |-> FALSE,
     use_amp |-> FALSE, epochs |-> 3, task |-> "sst-2",
     force_train |-> FALSE, evaluate |-> FALSE]

FlagValues ==
    { [DefaultFlags EXCEPT !.batch_size = b, !.task = t,
                           !.force_train = f, !.evaluate = e] :
         b \in BatchSizes, t \in Tasks, f \in BOOLEAN, e \in BOOLEAN }

(***************************************************************************)
(* Helpers of the script                                                   *)
(***************************************************************************)
_get_tfds_task_identity(task) == task

_get_tfds_task(task) ==
    IF task = "sst-2" THEN "sst2"
    ELSE IF task = "sts-b" THEN "stsb"
    ELSE task

_get_train_length_all(task) ==
    IF task = "sst-2" THEN PyInt(67349) ELSE PyInt(5749)

_get_train_length(task) ==
    IF task = "sst-2" THEN PyInt(67349)
    ELSE IF task = "sts-b" THEN PyInt(5749)
    ELSE None

\* f'./{_get_tfds_task(FLAGS.task)}/'
ModelPath(task) == "./" \o _get_tfds_task(task) \o "/"

CheckpointFileOther(path) == path \o "model.h5"

\* model_path + 'tf_model.h5'
CheckpointFile(path) == path \o "tf_model.h5"

\* save_pretrained(dir) writes the weights to tf_model.h5 in dir
SavedFile(dir) == dir \o "tf_model.h5"

\* os.path.exists
exists(path) == \E f \in files : f.path = path

\* len(glue_processors[task]().get_labels()); sts-b is the regression task
GlueNumLabels(task) ==
    IF task = "sts-b" THEN 1 ELSE IF task = "mnli" THEN 3 ELSE 2

\* info.splits['validation']: MNLI has validation_matched and
\* validation_mismatched only
HasValidationSplit(task) == task # "mnli"

(***************************************************************************)
(* Tensors.  A tensor is a view of one of the pretrained weights: `src` is *)
(* the weight, `shape` the extent of the view and `start` its first index  *)
(* on every axis, so that the element at idx is element start + idx of     *)
(* weight src.                                                             *)
(***************************************************************************)
LargeDim == 768
SmallDim == 144

Zeros(shape) == [a \in DOMAIN shape |-> 0]

Variable(k, shape) == [src |-> k, shape |-> shape, start |-> Zeros(shape)]

Element(t, idx) == <<t.src, [a \in DOMAIN idx |-> t.start[a] + idx[a]]>>

\* slice(start, stop) and slice(None)
slice(start, stop) == [full |-> FALSE, start |-> start, stop |-> stop]
sliceNone == [full |-> TRUE]

\* tensor[slice_indices]
GetItem(t, slice_indices) ==
    LET lo(a) == IF slice_indices[a].full THEN 0
                 ELSE Min(slice_indices[a].start, t.shape[a])
        hi(a) == IF slice_indices[a].full THEN t.shape[a]
                 ELSE Min(slice_indices[a].stop, t.shape[a])
    IN  [src |-> t.src,
         shape |-> [a \in DOMAIN t.shape |-> Max(0, hi(a) - lo(a))],
         start |-> [a \in DOMAIN t.shape |-> t.start[a] + lo(a)]]

SliceForShifted(s) ==
    IF s = LargeDim THEN slice(SmallDim, 2 * SmallDim) ELSE sliceNone

\* lines 99-102
SliceFor(s) ==
    IF s = LargeDim THEN slice(0, SmallDim) ELSE sliceNone

\* lines 97-104
SliceWeight(large_weight) ==
    LET shape == large_weight.shape
        slice_indices == [a \in DOMAIN shape |-> SliceFor(shape[a])]
    IN  GetItem(large_weight, slice_indices)

\* Shapes of first-layer weights a pretrained model may hold
PretrainedShapes ==
    { << <<LargeDim>>, <<LargeDim, LargeDim>>, <<3, LargeDim>> >>,
      << <<LargeDim, 2>>, <<2, 3>>, <<SmallDim>> >>,
      << <<5, SmallDim>>, <<LargeDim>> >> }

PretrainedWeights ==
    { [k \in DOMAIN shapes |-> Variable(k, shapes[k])] : shapes \in PretrainedShapes }

(***************************************************************************)
(* Local variables of train(), in the order of the code object             *)
(***************************************************************************)
VarNames == <<"argv", "num_labels", "tokenizer", "data", "info",
              "train_examples", "valid_examples", "train_dataset",
              "valid_dataset", "large_config", "large_model", "config",
              "model", "_", "weight_list", "i", "large_weight",
              "slice_indices", "s", "sliced_large_weight", "opt", "loss",
              "metric", "model_path", "local_vars", "variable",
              "train_steps", "valid_steps">>

\* locals(): the bound names
Locals(b) == SelectSeq(VarNames, LAMBDA v : v \in b)

Call(op, arg) == [op |-> op, arg |-> arg]
EvaluateCall(arg, steps) == [op |-> "evaluate", arg |-> arg, steps |-> steps]

Text(t) == [kind |-> "text", text |-> t]
VarLine(name, value) == [kind |-> "var", name |-> name, value |-> value]

Pretrained == "distilbert-base-uncased"

(***************************************************************************)
(* Initial state: the first execution is about to enter train(); the file  *)
(* system may hold checkpoints of earlier trainings.                       *)
(***************************************************************************)
OutputDirs == { ModelPath(t) : t \in Tasks }

FreshRun ==
    /\ pc = "set_config"
    /\ bound = {"argv"}
    /\ num_labels = 0
    /\ model_path = ""
    /\ large_weights = <<>>
    /\ i = 0
    /\ weight_list = <<>>
    /\ model_state = "unbuilt"
    /\ calls = <<>>
    /\ printed = <<>>
    /\ raised = "none"

Init ==
    /\ run = 1
    /\ FLAGS \in FlagValues
    /\ dirs \in SUBSET OutputDirs
    /\ \E kept \in SUBSET dirs :
          files = { [path |-> SavedFile(d), writer |-> 0, trained |-> TRUE,
                     overwrote |-> FALSE] : d \in kept }
    /\ FreshRun

(***************************************************************************)
(* train(), statement by statement                                         *)
(***************************************************************************)
fsVars == <<dirs, files>>
sliceVars == <<large_weights, i, weight_list>>

Raise(exc) ==
    /\ pc' = "raised"
    /\ raised' = exc

Goto(label) ==
    /\ pc' = label
    /\ raised' = raised

\* line 60
SetConfig ==
    /\ pc = "set_config"
    /\ Goto("load_data")
    /\ UNCHANGED <<run, FLAGS, fsVars, bound, num_labels, model_path, sliceVars,
                   model_state, calls, printed>>

\* lines 62-67; the dataset download may fail
LoadData ==
    /\ pc = "load_data"
    /\ num_labels' = GlueNumLabels(FLAGS.task)
    /\ calls' = Append(calls, Call("tokenizer.from_pretrained", Pretrained))
    /\ \/ /\ Goto("valid_split")
          /\ bound' = bound \cup {"num_labels", "tokenizer", "data", "info", "train_examples"}
       \/ /\ Raise("FrameworkError")
          /\ bound' = bound \cup {"num_labels", "tokenizer"}
    /\ UNCHANGED <<run, FLAGS, fsVars, model_path, sliceVars, model_state, printed>>

\* lines 69-70
ValidSplit ==
    /\ pc = "valid_split"
    /\ IF HasValidationSplit(FLAGS.task)
       THEN /\ Goto("prepare")
            /\ bound' = bound \cup {"valid_examples"}
       ELSE /\ Raise("KeyError")
            /\ bound' = bound
    /\ UNCHANGED <<run, FLAGS, fsVars, num_labels, model_path, sliceVars,
                   model_state, calls, printed>>

\* lines 73-84
Prepare ==
    /\ pc = "prepare"
    /\ Goto("load_models")
    /\ bound' = bound \cup {"train_dataset", "valid_dataset"}
    /\ UNCHANGED <<run, FLAGS, fsVars, num_labels, model_path, sliceVars,
                   model_state, calls, printed>>

\* lines 86-90; fetching the pretrained model may fail
LoadModels ==
    /\ pc = "load_models"
    /\ calls' = Append(calls, Call("from_pretrained", Pretrained))
    /\ \/ /\ Goto("predict")
          /\ large_weights' \in PretrainedWeights
          /\ bound' = bound \cup {"large_config", "large_model", "config", "model"}
       \/ /\ Raise("FrameworkError")
          /\ large_weights' = large_weights
          /\ bound' = bound \cup {"large_config"}
    /\ UNCHANGED <<run, FLAGS, fsVars, num_labels, model_path, i, weight_list,
                   model_state, printed>>

\* line 91: the first call builds the model's variables
Predict ==
    /\ pc = "predict"
    /\ Goto("slice_init")
    /\ calls' = Append(calls, Call("predict", "valid_dataset"))
    /\ model_state' = "random"
    /\ bound' = bound \cup {"_"}
    /\ UNCHANGED <<run, FLAGS, fsVars, num_labels, model_path, sliceVars, printed>>

\* line 93
SliceInit ==
    /\ pc = "slice_init"
    /\ Goto("slice_loop")
    /\ weight_list' = <<>>
    /\ bound' = bound \cup {"weight_list"}
    /\ UNCHANGED <<run, FLAGS, fsVars, num_labels, model_path, large_weights, i,
                   model_state, calls, printed>>

\* lines 95-105: one iteration of the loop; i counts the weights taken
SliceStep ==
    /\ pc = "slice_loop"
    /\ Len(weight_list) < Len(large_weights)
    /\ LET n == Len(weight_list) + 1
           large_weight == large_weights[n]
       IN  /\ i' = n - 1
           /\ weight_list' = Append(weight_list, SliceWeight(large_weight))
           /\ bound' = bound \cup {"i", "large_weight", "slice_indices",
                                    "sliced_large_weight"}
                              \cup (IF Len(large_weight.shape) > 0 THEN {"s"} ELSE {})
    /\ Goto("slice_loop")
    /\ UNCHANGED <<run, FLAGS, fsVars, num_labels, model_path, large_weights,
                   model_state, calls, printed>>

\* line 95, range exhausted
SliceDone ==
    /\ pc = "slice_loop"
    /\ Len(weight_list) = Len(large_weights)
    /\ Goto("set_weights")
    /\ UNCHANGED <<run, FLAGS, fsVars, bound, num_labels, model_path, sliceVars,
                   model_state, calls, printed>>

\* line 107
SetWeights ==
    /\ pc = "set_weights"
    /\ Goto("compile")
    /\ calls' = Append(calls, Call("set_weights", "weight_list"))
    /\ model_state' = "sliced"
    /\ UNCHANGED <<run, FLAGS, fsVars, bound, num_labels, model_path, sliceVars, printed>>

AfterCompileIgnoringEvaluate(evaluate) == "check"

\* line 126
AfterCompile(evaluate) == IF evaluate THEN "eval_train" ELSE "check"

\* lines 110-126
Compile ==
    /\ pc = "compile"
    /\ model_path' = ModelPath(FLAGS.task)
    /\ calls' = Append(calls, Call("compile",
                    IF num_labels = 1 THEN "MeanSquaredError"
                    ELSE "SparseCategoricalCrossentropy"))
    /\ bound' = bound \cup {"opt", "loss", "metric", "model_path"}
    /\ Goto(AfterCompile(FLAGS.evaluate))
    /\ UNCHANGED <<run, FLAGS, fsVars, num_labels, sliceVars, model_state, printed>>

AfterEvaluateFallThrough == "check"

\* line 133
AfterEvaluate == "done"

\* lines 127-130: the steps argument is computed before the call
EvalTrain ==
    /\ pc = "eval_train"
    /\ printed' = printed \o <<Text("Model summary:"), Text("model.summary()"),
                                Text("Evaluating on the training dataset...")>>
    /\ LET length == _get_train_length(FLAGS.task)
       IN  IF length = None
           THEN /\ Raise("TypeError")
                /\ calls' = calls
           ELSE \/ /\ Goto("eval_valid")
                   /\ calls' = Append(calls, EvaluateCall("train_dataset",
                                   PyInt(length.int \div FLAGS.batch_size)))
                \/ /\ Raise("FrameworkError")
                   /\ calls' = Append(calls, EvaluateCall("train_dataset",
                                   PyInt(length.int \div FLAGS.batch_size)))
    /\ UNCHANGED <<run, FLAGS, fsVars, bound, num_labels, model_path, sliceVars,
                   model_state>>

\* lines 131-133
EvalValid ==
    /\ pc = "eval_valid"
    /\ printed' = Append(printed, Text("Evaluating on the validation dataset..."))
    /\ calls' = Append(calls, EvaluateCall("valid_dataset", None))
    /\ \/ Goto(AfterEvaluate)
       \/ Raise("FrameworkError")
    /\ UNCHANGED <<run, FLAGS, fsVars, bound, num_labels, model_path, sliceVars,
                   model_state>>

SkipTrainingForced(checkpoint, force_train) == checkpoint /\ force_train

SkipTrainingAlways(checkpoint, force_train) == checkpoint

\* line 135
SkipTraining(checkpoint, force_train) == checkpoint /\ ~force_train

PrintableUnderscore(variable) == ~startswith(variable, "_")

\* line 140
Printable(variable) == ~startswith(variable, "-")

\* local_vars[variable]
LocalValue(variable) ==
    IF variable = "num_labels" THEN PyInt(num_labels)
    ELSE IF variable = "i" THEN PyInt(i)
    ELSE IF variable = "model_path" THEN PyStr(model_path)
    ELSE PyObject(variable)

\* lines 138-141
PrintLocals ==
    LET local_vars == Locals(bound)
        shown == SelectSeq(local_vars, Printable)
    IN  [k \in DOMAIN shown |-> VarLine(shown[k], LocalValue(shown[k]))]

AfterCheckSave == "makedirs"

\* line 144: training follows when it is not skipped
AfterCheck == "fit"

\* lines 135-142
Check ==
    /\ pc = "check"
    /\ IF SkipTraining(exists(CheckpointFile(model_path)), FLAGS.force_train)
       THEN /\ printed' = <<Text("Model in " \o model_path \o " already exists. Skipping training.")>>
                             \o PrintLocals
            /\ bound' = bound \cup {"local_vars"}
                               \cup (IF Locals(bound) # <<>> THEN {"variable"} ELSE {})
            /\ Goto("done")
       ELSE /\ printed' = printed
            /\ bound' = bound
            /\ Goto(AfterCheck)
    /\ UNCHANGED <<run, FLAGS, fsVars, num_labels, model_path, sliceVars,
                   model_state, calls>>

\* lines 145-149; training may fail
Fit ==
    /\ pc = "fit"
    /\ calls' = Append(calls, Call("fit", "train_dataset"))
    /\ \/ /\ Goto("makedirs")
          /\ model_state' = "trained"
          /\ bound' = bound \cup {"train_steps", "valid_steps", "_"}
       \/ /\ Raise("FrameworkError")
          /\ model_state' = model_state
          /\ bound' = bound \cup {"train_steps", "valid_steps"}
    /\ UNCHANGED <<run, FLAGS, fsVars, num_labels, model_path, sliceVars, printed>>

\* line 153
MakeDirs ==
    /\ pc = "makedirs"
    /\ calls' = Append(calls, Call("makedirs", model_path))
    /\ dirs' = dirs \cup {model_path}
    /\ Goto("save")
    /\ UNCHANGED <<run, FLAGS, files, bound, num_labels, model_path, sliceVars,
                   model_state, printed>>

\* line 154: the file replaces the one that was there
SavePretrained ==
    /\ pc = "save"
    /\ calls' = Append(calls, Call("save_pretrained", model_path))
    /\ files' = { f \in files : f.path # SavedFile(model_path) }
                   \cup { [path |-> SavedFile(model_path), writer |-> run,
                           trained |-> (model_state = "trained"),
                           overwrote |-> exists(SavedFile(model_path))] }
    /\ Goto("done")
    /\ UNCHANGED <<run, FLAGS, dirs, bound, num_labels, model_path, sliceVars,
                   model_state, printed>>

\* the script is started again, on the file system as it is
NewRun ==
    /\ pc \in {"done", "raised"}
    /\ run < MaxRuns
    /\ run' = run + 1
    /\ FLAGS' \in FlagValues
    /\ pc' = "set_config"
    /\ bound' = {"argv"}
    /\ num_labels' = 0
    /\ model_path' = ""
    /\ large_weights' = <<>>
    /\ i' = 0
    /\ weight_list' = <<>>
    /\ model_state' = "unbuilt"
    /\ calls' = <<>>
    /\ printed' = <<>>
    /\ raised' = "none"
    /\ UNCHANGED fsVars

Next ==
    \/ SetConfig
    \/ LoadData
    \/ ValidSplit
    \/ Prepare
    \/ LoadModels
    \/ Predict
    \/ SliceInit
    \/ SliceStep
    \/ SliceDone
    \/ SetWeights
    \/ Compile
    \/ EvalTrain
    \/ EvalValid
    \/ Check
    \/ Fit
    \/ MakeDirs
    \/ SavePretrained
    \/ NewRun

Spec == Init /\ [][Next]_vars

(***************************************************************************)
(* Properties                                                              *)
(***************************************************************************)
Ops(op) == { k \in DOMAIN calls : calls[k].op = op }
Count(op) == Cardinality(Ops(op))
Called(op) == Ops(op) # {}
Before(op1, op2) == \A k \in Ops(op2) : \E j \in Ops(op1) : j < k

\* the checkpoint this execution tests for, and one that was there before it started
OutputCheckpoint == CheckpointFile(ModelPath(FLAGS.task))
EarlierCheckpoint == \E f \in files : f.path = OutputCheckpoint /\ f.writer < run

SkipMessage == Text("Model in " \o ModelPath(FLAGS.task) \o " already exists. Skipping training.")
Skipped == printed # <<>> /\ printed[1] = SkipMessage
PrintedNames == [k \in 1..(Len(printed) - 1) |-> printed[k + 1].name]
PrintedValue(name) ==
    LET k == CHOOSE j \in 2..Len(printed) : printed[j].name = name
    IN  printed[k].value

\* C1: with a checkpoint in place and force_train unset, an execution never
\* calls model.fit, os.makedirs or model.save_pretrained, and no step of it
\* changes the files or the directories, whatever the task and the other flags.
C1_SkipLeavesCheckpoint ==
    /\ [](EarlierCheckpoint /\ ~FLAGS.force_train
            => ~Called("fit") /\ ~Called("makedirs") /\ ~Called("save_pretrained"))
    /\ [][EarlierCheckpoint /\ ~FLAGS.force_train => UNCHANGED fsVars]_vars

C1_Witness ==
    /\ pc = "done"
    /\ EarlierCheckpoint
    /\ ~FLAGS.force_train
    /\ ~FLAGS.evaluate
    /\ Skipped

\* C2 as stated: an execution that returns has called model.fit exactly once
\* and model.evaluate exactly once.
C2_OneFitOneEvaluate ==
    pc = "done" => Count("fit") = 1 /\ Count("evaluate") = 1

\* C2 amended: no execution calls both model.fit and model.evaluate; one that
\* returns has called model.evaluate exactly twice and model.fit never
\* (evaluate set), or model.fit once and model.evaluate never (evaluate unset,
\* trained), or neither (evaluate unset, training skipped).
C2_FitOrEvaluate ==
    /\ Count("fit") <= 1
    /\ Count("evaluate") <= 2
    /\ ~(Called("fit") /\ Called("evaluate"))
    /\ pc = "done" =>
         IF FLAGS.evaluate
         THEN Count("evaluate") = 2 /\ Count("fit") = 0
         ELSE /\ Count("evaluate") = 0
              /\ Count("fit") = (IF Skipped THEN 0 ELSE 1)
              /\ Skipped <=> (EarlierCheckpoint /\ ~FLAGS.force_train)

C2_Witness ==
    /\ pc = "done"
    /\ FLAGS.evaluate
    /\ Count("evaluate") = 2
    /\ Count("fit") = 0

\* C3 as stated: after the skip message the execution prints one line per
\* command-line flag.
C3_PrintsFlags ==
    pc = "done" /\ Skipped => PrintedNames = FlagNames

LocalsAtSkip == <<"argv", "num_labels", "tokenizer", "data", "info",
                  "train_examples", "valid_examples", "train_dataset",
                  "valid_dataset", "large_config", "large_model", "config",
                  "model", "_", "weight_list", "i", "large_weight",
                  "slice_indices", "s", "sliced_large_weight", "opt", "loss",
                  "metric", "model_path">>

\* C3 amended: after the skip message the execution prints one name/value
\* line per local variable of train() bound at that point (argv ... model_path,
\* among them model_path with the output directory), and no line for any flag.
C3_PrintsLocals ==
    pc = "done" /\ Skipped =>
        /\ PrintedNames = LocalsAtSkip
        /\ \A k \in DOMAIN PrintedNames :
              \A j \in DOMAIN FlagNames : PrintedNames[k] # FlagNames[j]
        /\ PrintedValue("model_path") = PyStr(ModelPath(FLAGS.task))
        /\ PrintedValue("num_labels") = PyInt(num_labels)

C3_Witness ==
    /\ pc = "done"
    /\ Skipped
    /\ Len(printed) = 1 + Len(LocalsAtSkip)

TaskNamedDir == "./" \o FLAGS.task \o "/"

\* C4 as stated: an execution creates and saves to the directory named by
\* FLAGS.task and no other.
C4_DirIsTaskName ==
    /\ \A k \in Ops("makedirs") \cup Ops("save_pretrained") : calls[k].arg = TaskNamedDir
    /\ \A f \in files : f.writer = run => f.path = TaskNamedDir \o "tf_model.h5"

TfdsNamedDir ==
    IF FLAGS.task = "sst-2" THEN "./sst2/"
    ELSE IF FLAGS.task = "sts-b" THEN "./stsb/"
    ELSE TaskNamedDir

\* C4 amended: an execution creates and saves to the directory sst2 for task
\* sst-2, stsb for task sts-b, and the directory named by FLAGS.task for any
\* other task, and to no other directory.
C4_DirIsTfdsName ==
    /\ \A k \in Ops("makedirs") \cup Ops("save_pretrained") : calls[k].arg = TfdsNamedDir
    /\ \A f \in files : f.writer = run => f.path = TfdsNamedDir \o "tf_model.h5"

C4_Witness ==
    /\ pc = "done"
    /\ FLAGS.task = "sst-2"
    /\ Called("save_pretrained")
    /\ \E f \in files : f.writer = run /\ f.path = "./sst2/tf_model.h5"

\* C5: with evaluate set, an execution never calls model.fit, os.makedirs or
\* model.save_pretrained and writes no file, whatever force_train is and
\* whether or not a checkpoint exists.
C5_EvaluateNeverTrains ==
    FLAGS.evaluate =>
        /\ ~Called("fit")
        /\ ~Called("makedirs")
        /\ ~Called("save_pretrained")
        /\ \A f \in files : f.writer # run
        /\ ~Skipped

C5_Witness ==
    /\ pc = "done"
    /\ FLAGS.evaluate
    /\ FLAGS.force_train
    /\ EarlierCheckpoint
    /\ Count("evaluate") = 2

\* C6: an execution with evaluate unset that returns, and either has
\* force_train set or found no checkpoint, has called model.fit and then
\* model.save_pretrained(model_path), and the checkpoint in model_path is the
\* trained model it wrote (replacing the one that was there).
C6_ForceTrainOverwrites ==
    pc = "done" /\ ~FLAGS.evaluate /\ (FLAGS.force_train \/ ~EarlierCheckpoint) =>
        /\ Count("fit") = 1
        /\ Count("save_pretrained") = 1
        /\ Before("fit", "save_pretrained")
        /\ \A k \in Ops("save_pretrained") : calls[k].arg = model_path
        /\ ~EarlierCheckpoint
        /\ \E f \in files : f.path = OutputCheckpoint /\ f.writer = run /\ f.trained

C6_Witness ==
    /\ pc = "done"
    /\ ~FLAGS.evaluate
    /\ FLAGS.force_train
    /\ \E f \in files : f.path = OutputCheckpoint /\ f.writer = run /\ f.overwrote

(***************************************************************************)
(* The slicing loop on its own (lines 93-105): the execution stands at     *)
(* line 93 with default flags, and the large model's first layer holds any *)
(* list of up to MaxWeights weights of the shapes below.                   *)
(***************************************************************************)
SliceShapes ==
    { <<LargeDim>>, <<LargeDim, LargeDim>>, <<3, LargeDim>>, <<LargeDim, 2>>,
      <<SmallDim>>, <<LargeDim + 1>>, <<LargeDim - 1, 2>>, <<2, LargeDim, 3>> }

SliceInputs ==
    { [k \in DOMAIN shapes |-> Variable(k, shapes[k])] :
        shapes \in UNION { [1..n -> SliceShapes] : n \in 1..MaxWeights } }

InitSlice ==
    /\ run = 1
    /\ FLAGS = DefaultFlags
    /\ dirs = {}
    /\ files = {}
    /\ pc = "slice_init"
    /\ bound = {"argv", "num_labels", "tokenizer", "data", "info",
                "train_examples", "valid_examples", "train_dataset",
                "valid_dataset", "large_config", "large_model", "config",
                "model", "_"}
    /\ num_labels = GlueNumLabels(FLAGS.task)
    /\ model_path = ""
    /\ large_weights \in SliceInputs
    /\ i = 0
    /\ weight_list = <<>>
    /\ model_state = "random"
    /\ calls = <<Call("tokenizer.from_pretrained", Pretrained),
                 Call("from_pretrained", Pretrained),
                 Call("predict", "valid_dataset")>>
    /\ printed = <<>>
    /\ raised = "none"

NextSlice ==
    \/ SliceInit
    \/ SliceStep
    \/ SliceDone

SpecSlice == InitSlice /\ [][NextSlice]_vars

RECURSIVE SameElements(_, _, _)
\* tensors w and l hold the same element at every index of w (counted from
\* 0) that extends idx
SameElements(w, l, idx) ==
    IF Len(idx) = Len(w.shape)
    THEN Element(w, idx) = Element(l, idx)
    ELSE \A x \in 0..(w.shape[Len(idx) + 1] - 1) : SameElements(w, l, Append(idx, x))

\* C7: the k-th entry of weight_list comes from the k-th weight of the large
\* layer: same rank, size 144 on every axis where the weight has size 768 and
\* the weight's size on every other axis, and at every index the weight's
\* element at that index; when the loop ends there is one entry per weight.
C7_SliceKeepsFirstChannels ==
    /\ Len(weight_list) <= Len(large_weights)
    /\ pc = "set_weights" => Len(weight_list) = Len(large_weights)
    /\ \A k \in DOMAIN weight_list :
          LET w == weight_list[k]
              l == large_weights[k]
          IN  /\ DOMAIN w.shape = DOMAIN l.shape
              /\ \A a \in DOMAIN l.shape :
                    w.shape[a] = (IF l.shape[a] = 768 THEN 144 ELSE l.shape[a])
              /\ SameElements(w, l, <<>>)

C7_Witness ==
    /\ pc = "set_weights"
    /\ Len(weight_list) = 2
    /\ large_weights[1].shape = <<768, 768>>
    /\ weight_list[1].shape = <<144, 144>>
    /\ large_weights[2].shape = <<769>>
    /\ weight_list[2].shape = <<769>>

\* C8: an execution with evaluate and force_train unset that follows one
\* which trained and saved for the same task finds that checkpoint: it never
\* calls model.fit, and when it returns it has skipped training.
C8_SecondRunSkips ==
    /\ run > 1
    /\ ~FLAGS.evaluate
    /\ ~FLAGS.force_train
    /\ \E f \in files : f.path = SavedFile(ModelPath(FLAGS.task)) /\ f.writer = run - 1
    => /\ ~Called("fit")
       /\ ~Called("save_pretrained")
       /\ pc = "done" => Skipped

C8_Witness ==
    /\ run = 2
    /\ pc = "done"
    /\ ~FLAGS.evaluate
    /\ ~FLAGS.force_train
    /\ \E f \in files : /\ f.path = SavedFile(ModelPath(FLAGS.task))
                        /\ f.writer = 1
                        /\ ~f.overwrote
    /\ Skipped

HasTrainLength == FLAGS.task \in {"sst-2", "sts-b"}
EvaluateMessage == Text("Evaluating on the training dataset...")
Printed(line) == \E k \in DOMAIN printed : printed[k] = line

\* C9: with evaluate set and a task other than sst-2 and sts-b, reaching the
\* evaluation of the training set ends the execution with a TypeError and no
\* model.evaluate call is ever made; for sst-2 and sts-b an execution that
\* returns has evaluated the training set for 67349 (5749) divided by
\* batch_size steps and then the validation set.
C9_EvaluateNeedsTrainLength ==
    FLAGS.evaluate =>
        /\ ~HasTrainLength =>
              /\ ~Called("evaluate")
              /\ pc # "done"
              /\ Printed(EvaluateMessage) => pc = "raised" /\ raised = "TypeError"
        /\ HasTrainLength /\ pc = "done" =>
              /\ Count("evaluate") = 2
              /\ \E j, k \in Ops("evaluate") :
                    /\ j < k
                    /\ calls[j] = EvaluateCall("train_dataset",
                          PyInt((IF FLAGS.task = "sst-2" THEN 67349 ELSE 5749)
                                  \div FLAGS.batch_size))
                    /\ calls[k] = EvaluateCall("valid_dataset", None)

C9_Witness ==
    /\ FLAGS.evaluate
    /\ FLAGS.task = "cola"
    /\ pc = "raised"
    /\ raised = "TypeError"
    /\ Printed(EvaluateMessage)

\* C10: in every execution one model.predict call precedes set_weights,
\* set_weights precedes compile, compile precedes every model.evaluate and
\* model.fit, model.fit has returned before os.makedirs and
\* model.save_pretrained; every checkpoint an execution writes holds the
\* model it trained, and only the pretrained model is ever loaded.
C10_StepOrder ==
    /\ Count("predict") <= 1
    /\ Before("predict", "set_weights")
    /\ Before("set_weights", "compile")
    /\ Before("compile", "evaluate")
    /\ Before("compile", "fit")
    /\ Before("fit", "makedirs")
    /\ Before("makedirs", "save_pretrained")
    /\ Called("makedirs") => model_state = "trained"
    /\ \A f \in files : f.trained
    /\ \A k \in Ops("from_pretrained") \cup Ops("tokenizer.from_pretrained") :
          calls[k].arg = Pretrained /\ calls[k].arg \notin OutputDirs

C10_Witness ==
    /\ pc = "done"
    /\ Called("save_pretrained")
    /\ \E f \in files : f.writer = run /\ f.trained

====
